---- MODULE Spec2Model ----
(***************************************************************************)
(* The scheduling engine of cool_school: ScheduleManager                   *)
(* (backend/app/schedule_state.py), core_assign_section                    *)
(* (backend/app/core_tools.py) and the entities of backend/app/models.py.  *)
(*                                                                         *)
(* Hours are floats restricted to quarter-hour multiples                   *)
(* (TimeSlot.validate_quarter_hours), so every hour quantity is held here  *)
(* as an integer number of quarter hours: 9.0h = 36, 1.25h = 5.            *)
(* Python's None is the string "None"; an optional float argument is a     *)
(* sequence of length 0 (None) or 1 (the value).                           *)
(* Python dicts keep insertion order, and the code iterates them: every    *)
(* dict of the state is a sequence of records carrying their key.          *)
(***************************************************************************)
EXTENDS Integers, Sequences, FiniteSets, TLC

\* bound: the number of calls of one run
MaxCalls == 1

\* models.py:52  (v * 4) % 1 != 0 : hours are multiples of a quarter
QuartersPerHour == 4

None == "None"

\* The ScheduleState of the manager (teachers, rooms, sections, assignments,
\* timeline), the clock, the last call with what it returned (last), the assignments
\* and timeline that call started from with the call before it (before), and the
\* assign_section calls that have read the state and not yet returned (inflight).
VARIABLES teachers, rooms, sections, assignments, timeline, clock, last, before,
          inflight

vars == <<teachers, rooms, sections, assignments, timeline, clock, last, before, inflight>>

(***************************************************************************)
(* Entities                                                                *)
(***************************************************************************)

TimeSlot(day, start_hour, end_hour) ==
    [day |-> day, start_hour |-> start_hour, end_hour |-> end_hour]

Teacher(id, name, max_load_hours, qualified_courses) ==
    [id |-> id, name |-> name, max_load_hours |-> max_load_hours,
     qualified_courses |-> qualified_courses]

CourseSection(id, course_code, timeslots) ==
    [id |-> id, course_code |-> course_code, timeslots |-> timeslots]

Assignment(section_id, teacher_id, room_id, assigned_at) ==
    [section_id |-> section_id, teacher_id |-> teacher_id, room_id |-> room_id,
     assigned_at |-> assigned_at]

TimelineEntry(timestamp, kind, entry) ==
    [timestamp |-> timestamp, kind |-> kind, entry |-> entry]

\* The teachers of _initialize_sample_data: 12 hours each.
SampleTeachers ==
    << Teacher("t_alice", "Alice", 12 * QuartersPerHour, {"CS101", "CS102"}),
       Teacher("t_bob", "Bob", 12 * QuartersPerHour, {"CS101", "CS102"}),
       Teacher("t_chen", "Chen", 12 * QuartersPerHour, {"MATH201"}) >>

\* A faculty with tight caps, as the tests build by replacing state.teachers.
TightTeachers ==
    << Teacher("t_alice", "Alice", 4 * QuartersPerHour, {"CS101", "CS102"}),
       Teacher("t_bob", "Bob", 5, {"CS101"}),
       Teacher("t_chen", "Chen", 2 * QuartersPerHour, {"CS102"}) >>

\* A faculty that cannot take the catalogue: the 3h section fits nobody, so the
\* integer program has no solution whatever the override.
ShortTeachers ==
    << Teacher("t_alice", "Alice", 2 * QuartersPerHour, {"CS101"}),
       Teacher("t_bob", "Bob", 5, {"CS101"}),
       Teacher("t_chen", "Chen", 2 * QuartersPerHour, {"MATH201"}) >>

\* A faculty in which the 3h section has two qualified teachers with room for it.
WideTeachers ==
    << Teacher("t_alice", "Alice", 12 * QuartersPerHour, {"CS101", "MATH201"}),
       Teacher("t_bob", "Bob", 12 * QuartersPerHour, {"CS101"}),
       Teacher("t_chen", "Chen", 12 * QuartersPerHour, {"MATH201"}) >>

\* A faculty in which every teacher can take CS101 and two can take MATH201.
PeerTeachers ==
    << Teacher("t_alice", "Alice", 12 * QuartersPerHour, {"CS101", "MATH201"}),
       Teacher("t_bob", "Bob", 12 * QuartersPerHour, {"CS101", "MATH201"}),
       Teacher("t_chen", "Chen", 12 * QuartersPerHour, {"CS101"}) >>

\* Three sections: 2h, 1.25h (overlapping the first) and 3h.
SectionCatalogue ==
    << CourseSection("CS101-A", "CS101", << TimeSlot(1, 36, 44) >>),
       CourseSection("CS101-B", "CS101", << TimeSlot(1, 40, 45) >>),
       CourseSection("MATH201-A", "MATH201", << TimeSlot(3, 36, 48) >>) >>

(***************************************************************************)
(* Ordered-dict helpers                                                    *)
(***************************************************************************)

Range(s) == {s[i] : i \in 1..Len(s)}

TeacherIds == {teachers[i].id : i \in 1..Len(teachers)}

SectionIds == {sections[i].id : i \in 1..Len(sections)}

AssignmentKeys(asg) == {asg[i].section_id : i \in 1..Len(asg)}

TeacherById(tid) == teachers[CHOOSE i \in 1..Len(teachers) : teachers[i].id = tid]

SectionById(sid) == sections[CHOOSE i \in 1..Len(sections) : sections[i].id = sid]

IndexOf(asg, sid) == CHOOSE i \in 1..Len(asg) : asg[i].section_id = sid

AssignmentOf(asg, sid) == asg[IndexOf(asg, sid)]

TeacherOf(asg, sid) ==
    IF sid \in AssignmentKeys(asg) THEN AssignmentOf(asg, sid).teacher_id ELSE None

(***************************************************************************)
(* Helpers of the entities                                                 *)
(***************************************************************************)

RECURSIVE SlotHours(_, _)
SlotHours(slots, i) ==
    IF i > Len(slots) THEN 0
    ELSE (slots[i].end_hour - slots[i].start_hour) + SlotHours(slots, i + 1)

\* CourseSection.get_credit_hours: the section's weekly hours.
get_credit_hours(section) == SlotHours(section.timeslots, 1)

\* ScheduleState.log(message, kind): append one entry to a timeline.
log(tl, now, entry, kind) == Append(tl, TimelineEntry(now, kind, entry))

RECURSIVE LoadFrom(_, _, _)
LoadFrom(asg, tid, i) ==
    IF i > Len(asg) THEN 0
    ELSE (IF asg[i].teacher_id = tid
             THEN get_credit_hours(SectionById(asg[i].section_id)) ELSE 0)
         + LoadFrom(asg, tid, i + 1)

\* ScheduleManager._compute_load_for_state
compute_load_for_state(asg, tid) == LoadFrom(asg, tid, 1)

\* ScheduleManager.compute_teacher_load
compute_teacher_load(tid) == compute_load_for_state(assignments, tid)

\* ScheduleManager.find_overload
find_overload ==
    {tid \in TeacherIds : compute_teacher_load(tid) > TeacherById(tid).max_load_hours}

\* Mutant: slots that touch are in conflict.
SlotsConflict_Touching(timeslot, existing_slot) ==
    /\ timeslot.day = existing_slot.day
    /\ ~(\/ timeslot.end_hour < existing_slot.start_hour
         \/ timeslot.start_hour > existing_slot.end_hour)

\* timeslot.day == existing_slot.day and not (timeslot.end_hour <=
\* existing_slot.start_hour or timeslot.start_hour >= existing_slot.end_hour)
SlotsConflict(timeslot, existing_slot) ==
    /\ timeslot.day = existing_slot.day
    /\ ~(\/ timeslot.end_hour <= existing_slot.start_hour
         \/ timeslot.start_hour >= existing_slot.end_hour)

\* The loop over section.timeslots: one (teacher_id, section_id) for each
\* timeslot that meets a slot the teacher already has.
RECURSIVE SectionConflicts(_, _, _, _)
SectionConflicts(assignment, timeslots, schedule, k) ==
    IF k > Len(timeslots) THEN << >>
    ELSE (IF \E e \in 1..Len(schedule) : SlotsConflict(timeslots[k], schedule[e])
          THEN << <<assignment.teacher_id, assignment.section_id>> >>
          ELSE << >>)
         \o SectionConflicts(assignment, timeslots, schedule, k + 1)

\* Mutant: the timeslots of a section join the schedule before they are tested.
RECURSIVE FindConflictsFrom_SelfCheck(_, _, _, _)
FindConflictsFrom_SelfCheck(asg, i, teacher_schedules, conflicts) ==
    IF i > Len(asg) THEN conflicts
    ELSE IF asg[i].teacher_id = None
    THEN FindConflictsFrom_SelfCheck(asg, i + 1, teacher_schedules, conflicts)
    ELSE
    LET section == SectionById(asg[i].section_id)
        tid == asg[i].teacher_id
        extended == [teacher_schedules EXCEPT ![tid] = @ \o section.timeslots]
    IN FindConflictsFrom_SelfCheck(
            asg, i + 1, extended,
            conflicts \o SectionConflicts(asg[i], section.timeslots, extended[tid], 1))

\* The loop over the assignments, with teacher_schedules and conflicts so far.
RECURSIVE FindConflictsFrom(_, _, _, _)
FindConflictsFrom(asg, i, teacher_schedules, conflicts) ==
    IF i > Len(asg) THEN conflicts
    ELSE IF asg[i].teacher_id = None
    THEN FindConflictsFrom(asg, i + 1, teacher_schedules, conflicts)
    ELSE
    LET section == SectionById(asg[i].section_id)
        tid == asg[i].teacher_id
    IN FindConflictsFrom(
            asg, i + 1,
            [teacher_schedules EXCEPT ![tid] = @ \o section.timeslots],
            conflicts \o SectionConflicts(asg[i], section.timeslots,
                                          teacher_schedules[tid], 1))

\* find_conflicting_assignments on the assignments asg
ConflictsIn(asg) == FindConflictsFrom(asg, 1, [tid \in TeacherIds |-> << >>], << >>)

\* ScheduleManager.find_conflicting_assignments
find_conflicting_assignments == ConflictsIn(assignments)

\* str.lower on the names the calls below use
Lower(s) ==
    CASE s = "Alice" -> "alice"
      [] s = "ALICE" -> "alice"
      [] s = "Bob" -> "bob"
      [] s = "Chen" -> "chen"
      [] OTHER -> s

\* ScheduleManager.teacher_name_to_id
teacher_name_to_id(name_or_id) ==
    IF name_or_id \in TeacherIds THEN name_or_id
    ELSE LET hits == {i \in 1..Len(teachers) : Lower(teachers[i].name) = Lower(name_or_id)}
         IN IF hits = {} THEN None
            ELSE teachers[CHOOSE i \in hits : \A j \in hits : i <= j].id

\* f"{x:.1f}": x quarter hours as tenths of an hour, ties to the even tenth
Format1f(q) ==
    LET t == (q * 10) \div QuartersPerHour
        r == (q * 10) % QuartersPerHour
    IN IF 2 * r < QuartersPerHour THEN t
       ELSE IF 2 * r > QuartersPerHour THEN t + 1
       ELSE IF t % 2 = 0 THEN t ELSE t + 1

\* What an operation returned to its caller: success or not, which return
\* statement it was (kind) and what its message names.
Ret(op, ok, kind, section, teacher, detail, value) ==
    [op |-> op, ok |-> ok, kind |-> kind, section |-> section, teacher |-> teacher,
     detail |-> detail, value |-> value]

\* The last call: its arguments with what it returned.
Call(args, ret) == [args |-> args] @@ ret

\* ScheduleManager.get_state: the snapshot core_assign_section reads
get_state ==
    [teachers |-> teachers, rooms |-> rooms, sections |-> sections,
     assignments |-> assignments, timeline |-> timeline]

(***************************************************************************)
(* assign_section (core_tools.core_assign_section)                         *)
(***************************************************************************)

\* Mutant: a section counts as assigned once it has a room.
AlreadyAssigned_HasRoom(assignment) == assignment.room_id # None

\* if assignment["teacher_id"] is not None
AlreadyAssigned(assignment) == assignment.teacher_id # None

\* if section["course_code"] not in teacher_obj.qualified_courses
AssignNotQualified(section, teacher_obj) ==
    section.course_code \notin teacher_obj.qualified_courses

\* Mutant: a load that reaches the cap is refused.
AssignWouldOverload_AtCap(current_load, section_hours, teacher_obj) ==
    current_load + section_hours >= teacher_obj.max_load_hours

\* if current_load + section_hours > teacher_obj.max_load_hours
AssignWouldOverload(current_load, section_hours, teacher_obj) ==
    current_load + section_hours > teacher_obj.max_load_hours

\* Mutant: every section without a teacher gets the teacher.
AssignWrite_AllUnassigned(asg, section_id, teacher_id) ==
    [i \in 1..Len(asg) |->
        IF asg[i].teacher_id = None THEN [asg[i] EXCEPT !.teacher_id = teacher_id]
        ELSE asg[i]]

\* SCHEDULE_MANAGER.state.assignments[section_id].teacher_id = teacher_id
AssignWrite(asg, section_id, teacher_id) ==
    [asg EXCEPT ![IndexOf(asg, section_id)].teacher_id = teacher_id]

\* The outcome of one call: what it returns and the state it leaves.
Outcome(ret, asg, tl) == [ret |-> ret, assignments |-> asg, timeline |-> tl]

\* Mutant: a rejected call leaves an entry in the timeline.
Rejected_Logged(ret) ==
    Outcome(ret, assignments, log(timeline, clock, <<"Rejected", ret.kind>>, "error"))

\* return {"error": ...} / return False, ...: nothing has been written
Rejected(ret) == Outcome(ret, assignments, timeline)

\* The body of core_assign_section once state = SCHEDULE_MANAGER.get_state() is
\* taken: the section is looked up in the snapshot, the teacher, the load and the
\* write go to SCHEDULE_MANAGER.state.
AssignFrom(state, section_id, teacher) ==
    LET op == "assign_section" IN
    IF section_id \notin AssignmentKeys(state.assignments)
    THEN Rejected(Ret(op, FALSE, "section_not_found", section_id, None, "", << >>))
    ELSE
    LET assignment == AssignmentOf(state.assignments, section_id) IN
    IF AlreadyAssigned(assignment)
    THEN Rejected(Ret(op, FALSE, "already_assigned", section_id,
                     TeacherById(assignment.teacher_id).name, "", << >>))
    ELSE
    LET teacher_id == teacher_name_to_id(teacher) IN
    IF teacher_id = None
    THEN Rejected(Ret(op, FALSE, "teacher_not_found", section_id, teacher, "", << >>))
    ELSE
    LET section == SectionById(section_id)
        teacher_obj == TeacherById(teacher_id)
    IN
    IF AssignNotQualified(section, teacher_obj)
    THEN Rejected(Ret(op, FALSE, "not_qualified", section_id, teacher_obj.name,
                     section.course_code, << >>))
    ELSE
    LET current_load == compute_teacher_load(teacher_id)
        section_hours == SlotHours(section.timeslots, 1)
    IN
    IF AssignWouldOverload(current_load, section_hours, teacher_obj)
    THEN Rejected(Ret(op, FALSE, "would_overload", section_id, teacher_obj.name, "",
                     << Format1f(current_load + section_hours) >>))
    ELSE Outcome(Ret(op, TRUE, "assigned", section_id, teacher_obj.name, "",
                     << Format1f(current_load + section_hours) >>),
                 AssignWrite(assignments, section_id, teacher_id),
                 log(timeline, clock, <<"Assigned", section_id, teacher_obj.name>>,
                     "assignment"))

core_assign_section(section_id, teacher) == AssignFrom(get_state, section_id, teacher)

(***************************************************************************)
(* try_swap                                                                *)
(***************************************************************************)

\* Mutant: a load that reaches the cap is refused.
SwapWouldOverload_AtCap(current_load, section, to_teacher) ==
    current_load + get_credit_hours(section) >= to_teacher.max_load_hours

\* if current_load + section.get_credit_hours() > to_teacher.max_load_hours
SwapWouldOverload(current_load, section, to_teacher) ==
    current_load + get_credit_hours(section) > to_teacher.max_load_hours

\* if section.course_code not in to_teacher.qualified_courses
SwapNotQualified(section, to_teacher) ==
    section.course_code \notin to_teacher.qualified_courses

\* Mutant: the swap also takes the room from the section.
SwapWrite_ClearsRoom(asg, section_id, to_teacher_id, now) ==
    [asg EXCEPT ![IndexOf(asg, section_id)].teacher_id = to_teacher_id,
                ![IndexOf(asg, section_id)].room_id = None,
                ![IndexOf(asg, section_id)].assigned_at = now]

\* assignment.teacher_id = to_teacher_id; assignment.assigned_at = _now_iso()
SwapWrite(asg, section_id, to_teacher_id, now) ==
    [asg EXCEPT ![IndexOf(asg, section_id)].teacher_id = to_teacher_id,
                ![IndexOf(asg, section_id)].assigned_at = now]

try_swap(section_id, from_teacher_id, to_teacher_id) ==
    LET op == "try_swap" IN
    IF section_id \notin AssignmentKeys(assignments)
    THEN Rejected(Ret(op, FALSE, "section_not_found", section_id, None, "", << >>))
    ELSE IF from_teacher_id \notin TeacherIds
    THEN Rejected(Ret(op, FALSE, "teacher_not_found", section_id, from_teacher_id, "", << >>))
    ELSE IF to_teacher_id \notin TeacherIds
    THEN Rejected(Ret(op, FALSE, "teacher_not_found", section_id, to_teacher_id, "", << >>))
    ELSE
    LET assignment == AssignmentOf(assignments, section_id) IN
    IF assignment.teacher_id # from_teacher_id
    THEN Rejected(Ret(op, FALSE, "not_assigned_to", section_id, from_teacher_id, "", << >>))
    ELSE
    LET to_teacher == TeacherById(to_teacher_id)
        section == SectionById(section_id)
        current_load == compute_teacher_load(to_teacher_id)
    IN
    IF SwapWouldOverload(current_load, section, to_teacher)
    THEN Rejected(Ret(op, FALSE, "would_overload", section_id, to_teacher.name, "", << >>))
    ELSE IF SwapNotQualified(section, to_teacher)
    THEN Rejected(Ret(op, FALSE, "not_qualified", section_id, to_teacher.name,
                     section.course_code, << >>))
    ELSE Outcome(Ret(op, TRUE, "swapped", section_id, to_teacher.name, "", << >>),
                 SwapWrite(assignments, section_id, to_teacher_id, clock),
                 log(timeline, clock,
                     <<"Swapped", section_id, TeacherById(from_teacher_id).name,
                       to_teacher.name>>, "assignment"))


(***************************************************************************)
(* greedy_rebalance                                                        *)
(***************************************************************************)

\* current_load - target_load > 2.0
SlackThreshold == 2 * QuartersPerHour

\* Mutant: any other teacher is a candidate, qualified or not.
GreedyCandidate_Unqualified(teacher, assignment, section) ==
    teacher.id # assignment.teacher_id

\* teacher_id != assignment.teacher_id and section.course_code in teacher.qualified_courses
GreedyCandidate(teacher, assignment, section) ==
    /\ teacher.id # assignment.teacher_id
    /\ section.course_code \in teacher.qualified_courses

\* Mutant: the target's cap is not checked.
GreedyEligible_NoCap(teacher, target_load, current_load, section_hours) ==
    current_load - target_load > SlackThreshold

\* target_load + section_hours <= teacher.max_load_hours and current_load - target_load > 2.0
GreedyEligible(teacher, target_load, current_load, section_hours) ==
    /\ target_load + section_hours <= teacher.max_load_hours
    /\ current_load - target_load > SlackThreshold

\* Mutant: a later teacher with the same load_diff replaces the best so far.
RECURSIVE PickBest_LastOnTies(_, _, _, _, _, _)
PickBest_LastOnTies(assignment, section, teacher_loads, j, best_teacher, best_load_diff) ==
    IF j > Len(teachers) THEN best_teacher
    ELSE
    LET teacher == teachers[j]
        current_load == teacher_loads[assignment.teacher_id]
        target_load == teacher_loads[teacher.id]
        load_diff == current_load - target_load
        better == /\ GreedyCandidate(teacher, assignment, section)
                  /\ GreedyEligible(teacher, target_load, current_load,
                                    get_credit_hours(section))
                  /\ load_diff >= best_load_diff
    IN PickBest_LastOnTies(assignment, section, teacher_loads, j + 1,
                           IF better THEN teacher.id ELSE best_teacher,
                           IF better THEN load_diff ELSE best_load_diff)

\* The inner loop over self.state.teachers.items(): the best target so far.
RECURSIVE PickBest(_, _, _, _, _, _)
PickBest(assignment, section, teacher_loads, j, best_teacher, best_load_diff) ==
    IF j > Len(teachers) THEN best_teacher
    ELSE
    LET teacher == teachers[j]
        current_load == teacher_loads[assignment.teacher_id]
        target_load == teacher_loads[teacher.id]
        load_diff == current_load - target_load
        better == /\ GreedyCandidate(teacher, assignment, section)
                  /\ GreedyEligible(teacher, target_load, current_load,
                                    get_credit_hours(section))
                  /\ load_diff > best_load_diff
    IN PickBest(assignment, section, teacher_loads, j + 1,
                IF better THEN teacher.id ELSE best_teacher,
                IF better THEN load_diff ELSE best_load_diff)

\* Mutant: the section leaves its teacher and reaches nobody.
GreedyMove_Dropped(asg, i, best_teacher, now) ==
    [asg EXCEPT ![i].teacher_id = None, ![i].assigned_at = now]

\* assignment.teacher_id = best_teacher; assignment.assigned_at = _now_iso()
GreedyMove(asg, i, best_teacher, now) ==
    [asg EXCEPT ![i].teacher_id = best_teacher, ![i].assigned_at = now]

\* Mutant: the hours are added to the target and not taken from the source.
GreedyTrack_NoDebit(teacher_loads, from_id, to_id, section_hours) ==
    [t \in DOMAIN teacher_loads |->
        IF t = to_id THEN teacher_loads[t] + section_hours ELSE teacher_loads[t]]

\* teacher_loads[current_teacher.id] -= section_hours; teacher_loads[best_teacher] += section_hours
GreedyTrack(teacher_loads, from_id, to_id, section_hours) ==
    [t \in DOMAIN teacher_loads |->
        IF t = from_id /\ t = to_id THEN teacher_loads[t]
        ELSE IF t = from_id THEN teacher_loads[t] - section_hours
        ELSE IF t = to_id THEN teacher_loads[t] + section_hours
        ELSE teacher_loads[t]]

\* The outer loop over self.state.assignments.values().
RECURSIVE GreedyPass(_, _, _, _, _)
GreedyPass(asg, tl, teacher_loads, i, now) ==
    IF i > Len(asg) THEN [assignments |-> asg, timeline |-> tl]
    ELSE
    LET assignment == asg[i] IN
    IF assignment.teacher_id = None
    THEN GreedyPass(asg, tl, teacher_loads, i + 1, now)
    ELSE
    LET current_teacher == TeacherById(assignment.teacher_id)
        section == SectionById(assignment.section_id)
        section_hours == get_credit_hours(section)
        best_teacher == PickBest(assignment, section, teacher_loads, 1, None, 0)
    IN
    IF best_teacher = None
    THEN GreedyPass(asg, tl, teacher_loads, i + 1, now)
    ELSE GreedyPass(GreedyMove(asg, i, best_teacher, now),
                    log(tl, now,
                        <<"Rebalanced", assignment.section_id, current_teacher.name,
                          TeacherById(best_teacher).name>>, "assignment"),
                    GreedyTrack(teacher_loads, current_teacher.id, best_teacher,
                                section_hours),
                    i + 1, now)

\* greedy_rebalance(max_load_hours) on the state (asg, tl); max_load_hours is never read.
greedy_rebalance(asg, tl, max_load_hours, now) ==
    LET teacher_loads == [t \in TeacherIds |-> compute_load_for_state(asg, t)]
    IN GreedyPass(asg, tl, teacher_loads, 1, now)


(***************************************************************************)
(* optimal_rebalance                                                       *)
(***************************************************************************)

\* Python truthiness of the optional float argument
Truthy(max_load_hours) == max_load_hours # << >> /\ max_load_hours[1] # 0

\* max_load = max_load_hours if max_load_hours else teacher.max_load_hours
EffectiveMaxLoad(max_load_hours, teacher) ==
    IF Truthy(max_load_hours) THEN max_load_hours[1] ELSE teacher.max_load_hours

\* qualified_teachers of a section (constraint 1)
QualifiedTeachers(section) ==
    {t \in TeacherIds : section.course_code \in TeacherById(t).qualified_courses}

\* Mutant: every x[section][teacher] is an IntVar(0, 1) and every section gets a teacher.
Grid_AnyTeacher == [SectionIds -> TeacherIds]

\* The values x may take: x[section][teacher] is an IntVar(0, 1) for a qualified
\* teacher and an IntVar(0, 0) otherwise, and constraint 1 sets the sum over the
\* qualified teachers to 1. x is held as the map section -> the teacher whose
\* variable is 1 (None: no variable of the section is 1).
Grid ==
    LET q == [sid \in SectionIds |-> QualifiedTeachers(SectionById(sid))]
    IN {x \in [SectionIds -> TeacherIds \cup {None}] :
            \A sid \in SectionIds :
                IF q[sid] = {} THEN x[sid] = None ELSE x[sid] \in q[sid]}

RECURSIVE SolverLoadFrom(_, _, _)
SolverLoadFrom(x, tid, i) ==
    IF i > Len(sections) THEN 0
    ELSE (IF x[sections[i].id] = tid THEN get_credit_hours(sections[i]) ELSE 0)
         + SolverLoadFrom(x, tid, i + 1)

\* teacher_load = sum(x[section_id][teacher_id] * hours for section_id in sections)
SolverLoad(x) == [tid \in TeacherIds |-> SolverLoadFrom(x, tid, 1)]

\* Mutant: constraint 2 is not added.
WithinMaxLoad_NoCap(teacher_load, max_load_hours) == TRUE

\* Constraint 2: solver.Add(teacher_load <= max_load)
WithinMaxLoad(teacher_load, max_load_hours) ==
    \A j \in 1..Len(teachers) :
        teacher_load[teachers[j].id] <= EffectiveMaxLoad(max_load_hours, teachers[j])

RECURSIVE TotalHoursFrom(_)
TotalHoursFrom(i) ==
    IF i > Len(sections) THEN 0 ELSE get_credit_hours(sections[i]) + TotalHoursFrom(i + 1)

\* Mutant: the deviation is signed.
Abs_Signed(n) == n

\* deviation >= teacher_load - target_load; deviation >= target_load - teacher_load
Abs(n) == IF n < 0 THEN 0 - n ELSE n

RECURSIVE DeviationFrom(_, _, _)
DeviationFrom(teacher_load, total_hours, j) ==
    IF j > Len(teachers) THEN 0
    ELSE Abs(teacher_load[teachers[j].id] * Len(teachers) - total_hours)
         + DeviationFrom(teacher_load, total_hours, j + 1)

\* The objective sum(deviations), times num_teachers: each deviation is
\* |teacher_load - total_hours / num_teachers| at the minimum.
Objective(teacher_load, total_hours) == DeviationFrom(teacher_load, total_hours, 1)

\* Mutant: no objective is set, the solver answers any point within the constraints.
Solve_NoObjective(max_load_hours) ==
    LET feasible == {x \in Grid : WithinMaxLoad(SolverLoad(x), max_load_hours)}
    IN IF feasible = {} THEN {[status |-> "INFEASIBLE", x |-> << >>]}
       ELSE {[status |-> "OPTIMAL", x |-> x] : x \in feasible}

\* status = solver.Solve(): what the solver may answer. It runs without a time
\* limit, so it answers OPTIMAL with any minimum of the objective, or INFEASIBLE.
Solve(max_load_hours) ==
    LET total_hours == TotalHoursFrom(1)
        loaded == {[x |-> x, load |-> SolverLoad(x)] : x \in Grid}
        feasible == {[x |-> c.x, cost |-> Objective(c.load, total_hours)] :
                        c \in {d \in loaded : WithinMaxLoad(d.load, max_load_hours)}}
    IN IF feasible = {} THEN {[status |-> "INFEASIBLE", x |-> << >>]}
       ELSE {[status |-> "OPTIMAL", x |-> c.x] :
                c \in {y \in feasible : \A z \in feasible : y.cost <= z.cost}}

\* Mutant: a record is created for every section, present or not.
EnsureAssignment_Always(asg, section_id, now) ==
    Append(asg, Assignment(section_id, None, None, now))

\* if section_id not in new_state.assignments: new_state.assignments[section_id] = Assignment(...)
EnsureAssignment(asg, section_id, now) ==
    IF section_id \in AssignmentKeys(asg) THEN asg
    ELSE Append(asg, Assignment(section_id, None, None, now))

\* The loop that applies x to new_state.
RECURSIVE ApplySolution(_, _, _, _, _)
ApplySolution(asg, tl, x, i, now) ==
    IF i > Len(sections) THEN [assignments |-> asg, timeline |-> tl]
    ELSE
    LET section_id == sections[i].id
        ensured == EnsureAssignment(asg, section_id, now)
        teacher_id == x[section_id]
        k == IndexOf(ensured, section_id)
        old_teacher_id == ensured[k].teacher_id
    IN
    IF teacher_id = None THEN ApplySolution(ensured, tl, x, i + 1, now)
    ELSE ApplySolution(
            [ensured EXCEPT ![k].teacher_id = teacher_id, ![k].assigned_at = now],
            IF old_teacher_id # teacher_id
            THEN log(tl, now,
                     <<"OR-Tools rebalanced", section_id,
                       IF old_teacher_id # None THEN TeacherById(old_teacher_id).name
                       ELSE "Unassigned",
                       TeacherById(teacher_id).name>>, "assignment")
            ELSE tl,
            x, i + 1, now)

\* Mutant: the empty schedule is not set apart.
NothingToSolve_Never == FALSE

\* if not sections or not teachers
NothingToSolve == Len(sections) = 0 \/ Len(teachers) = 0

\* Mutant: the copy starts from an empty timeline.
new_state_NoTimeline == [assignments |-> assignments, timeline |-> << >>]

\* new_state = copy.deepcopy(self.state)
new_state == [assignments |-> assignments, timeline |-> timeline]

\* if pywraplp is None / if not solver: log on self.state, then greedy_rebalance
SolverMissing(message, max_load_hours, now) ==
    greedy_rebalance(assignments,
                     log(timeline, now, <<message>>, "system"),
                     max_load_hours, now)

\* else: new_state.log(...); return self.greedy_rebalance(max_load_hours)
\* The entry goes to the copy new_state, which is dropped; greedy runs on self.state.
SolveFailed(max_load_hours, now) ==
    LET logged ==
            [new_state EXCEPT
                !.timeline = log(@, now, <<"OR-Tools rebalancing failed">>, "system")]
    IN greedy_rebalance(assignments, timeline, max_load_hours, now)

\* optimal_rebalance(max_load_hours); env is what the solver library offers
\* ("no_module": the import failed, "no_solver": CreateSolver returned nothing) and
\* solved the answer of solver.Solve(). The result carries the branch taken in path.
optimal_rebalance(max_load_hours, env, solved, now) ==
    IF env = "no_module"
    THEN [path |-> "no_module"]
         @@ SolverMissing("OR-Tools not available", max_load_hours, now)
    ELSE IF env = "no_solver"
    THEN [path |-> "no_solver"]
         @@ SolverMissing("OR-Tools solver not available", max_load_hours, now)
    ELSE IF NothingToSolve
    THEN [path |-> "empty", assignments |-> assignments, timeline |-> timeline]
    ELSE IF solved.status = "OPTIMAL" \/ solved.status = "FEASIBLE"
    THEN [path |-> "solved"]
         @@ ApplySolution(new_state.assignments, new_state.timeline, solved.x, 1, now)
    ELSE [path |-> "infeasible"] @@ SolveFailed(max_load_hours, now)

(***************************************************************************)
(* The calls                                                               *)
(***************************************************************************)

SectionArgs == SectionIds \cup {"PHYS999-Z"}

TeacherArgs == TeacherIds \cup {"ALICE", "nobody"}

SwapTeacherArgs == TeacherIds \cup {"t_zed"}

OverrideArgs == { << >>, <<0>>, <<QuartersPerHour>>, <<2 * QuartersPerHour>> }

SolverEnvs == {"ok", "no_module", "no_solver"}

\* The clock _now_iso reads: every call happens at a later instant than the one
\* before it.
Tick == clock + 1

AssignSection(section_id, teacher) ==
    /\ clock <= MaxCalls
    /\ LET r == core_assign_section(section_id, teacher) IN
        /\ assignments' = r.assignments
        /\ timeline' = r.timeline
        /\ last' = Call(<<section_id, teacher>>, r.ret)
        /\ clock' = Tick
    /\ before' = [assignments |-> assignments, timeline |-> timeline, last |-> last]
    /\ UNCHANGED <<teachers, rooms, sections, inflight>>

TrySwap(section_id, from_teacher_id, to_teacher_id) ==
    /\ clock <= MaxCalls
    /\ LET r == try_swap(section_id, from_teacher_id, to_teacher_id) IN
        /\ assignments' = r.assignments
        /\ timeline' = r.timeline
        /\ last' = Call(<<section_id, from_teacher_id, to_teacher_id>>, r.ret)
        /\ clock' = Tick
    /\ before' = [assignments |-> assignments, timeline |-> timeline, last |-> last]
    /\ UNCHANGED <<teachers, rooms, sections, inflight>>

GreedyRebalance(max_load_hours) ==
    /\ clock <= MaxCalls
    /\ LET r == greedy_rebalance(assignments, timeline, max_load_hours, clock) IN
        /\ assignments' = r.assignments
        /\ timeline' = r.timeline
        /\ last' = Call(<< >>, Ret("greedy_rebalance", TRUE, "greedy", None, None, "",
                                  max_load_hours))
        /\ clock' = Tick
    /\ before' = [assignments |-> assignments, timeline |-> timeline, last |-> last]
    /\ UNCHANGED <<teachers, rooms, sections, inflight>>

OptimalRebalance(max_load_hours, env) ==
    /\ clock <= MaxCalls
    /\ \E solved \in (IF env = "ok" /\ ~NothingToSolve
                      THEN Solve(max_load_hours)
                      ELSE {[status |-> "NOT_RUN", x |-> << >>]}) :
        LET r == optimal_rebalance(max_load_hours, env, solved, clock) IN
        /\ assignments' = r.assignments
        /\ timeline' = r.timeline
        /\ last' = Call(<<env>>, Ret("optimal_rebalance", TRUE, r.path, None, None, "",
                                    max_load_hours))
        /\ clock' = Tick
    /\ before' = [assignments |-> assignments, timeline |-> timeline, last |-> last]
    /\ UNCHANGED <<teachers, rooms, sections, inflight>>

(***************************************************************************)
(* The states a manager starts from: the sample faculty or a tight one,    *)
(* the catalogue's sections, each without a teacher or with one qualified  *)
(* for its course (overloaded or not), in either order of the assignments  *)
(* dict; the first section has the room when it has a teacher              *)
(* (Assignment.validate_assignment_consistency).                           *)
(***************************************************************************)

Reverse(s) == [i \in 1..Len(s) |-> s[Len(s) + 1 - i]]

InitAssignments(faculty) ==
    LET n == Len(SectionCatalogue)
        qualified(i) ==
            {faculty[j].id : j \in {k \in 1..Len(faculty) :
                SectionCatalogue[i].course_code \in faculty[k].qualified_courses}}
        base == {[i \in 1..n |->
                    Assignment(SectionCatalogue[i].id, f[i],
                               IF i = 1 /\ f[i] # None THEN "r101" ELSE None, 0)] :
                 f \in {g \in [1..n -> {faculty[j].id : j \in 1..Len(faculty)} \cup {None}] :
                           \A i \in 1..n : g[i] = None \/ g[i] \in qualified(i)}}
    IN base \cup {Reverse(a) : a \in base}

Init ==
    /\ teachers \in {SampleTeachers, TightTeachers, ShortTeachers}
    /\ rooms = {"r101"}
    /\ sections = SectionCatalogue
    /\ assignments \in InitAssignments(teachers)
    /\ timeline = << TimelineEntry(0, "system", <<"Scheduling data loaded">>) >>
    /\ clock = 1
    /\ last = Call(<< >>, Ret("init", TRUE, "init", None, None, "", << >>))
    /\ before = [assignments |-> assignments, timeline |-> timeline, last |-> last]
    /\ inflight = << >>

Next ==
    \/ \E section_id \in SectionArgs, teacher \in TeacherArgs :
            AssignSection(section_id, teacher)
    \/ \E section_id \in SectionArgs, f \in SwapTeacherArgs, t \in SwapTeacherArgs :
            TrySwap(section_id, f, t)
    \/ \E m \in OverrideArgs : GreedyRebalance(m)
    \/ \E m \in OverrideArgs, env \in SolverEnvs : OptimalRebalance(m, env)

Spec == Init /\ [][Next]_vars


(***************************************************************************)
(* The scenario of tests/test_rebalancing.py (create_unbalanced_scenario): *)
(* Alice holds the four CS sections, Chen the MATH section, Bob nothing.   *)
(***************************************************************************)

ScenarioTeachers ==
    << Teacher("t_alice", "Alice", 8 * QuartersPerHour, {"CS101", "CS102"}),
       Teacher("t_bob", "Bob", 8 * QuartersPerHour, {"CS101", "CS102"}),
       Teacher("t_chen", "Chen", 6 * QuartersPerHour, {"MATH201"}) >>

ScenarioSections ==
    << CourseSection("CS101-A", "CS101", << TimeSlot(1, 36, 44) >>),
       CourseSection("CS101-B", "CS101", << TimeSlot(1, 44, 52) >>),
       CourseSection("CS102-A", "CS102", << TimeSlot(2, 36, 44) >>),
       CourseSection("CS102-B", "CS102", << TimeSlot(2, 44, 52) >>),
       CourseSection("MATH201-A", "MATH201", << TimeSlot(3, 40, 48) >>) >>

ScenarioAssignments ==
    << Assignment("CS101-A", "t_alice", "r101", 0),
       Assignment("CS101-B", "t_alice", "r101", 0),
       Assignment("CS102-A", "t_alice", "lab1", 0),
       Assignment("CS102-B", "t_alice", "lab1", 0),
       Assignment("MATH201-A", "t_chen", "r101", 0) >>

InitScenario ==
    /\ teachers = ScenarioTeachers
    /\ rooms = {"r101", "lab1"}
    /\ sections = ScenarioSections
    /\ assignments = ScenarioAssignments
    /\ timeline = << >>
    /\ clock = 1
    /\ last = Call(<< >>, Ret("init", TRUE, "init", None, None, "", << >>))
    /\ before = [assignments |-> assignments, timeline |-> timeline, last |-> last]
    /\ inflight = << >>

SpecScenario == InitScenario /\ [][Next]_vars

(***************************************************************************)
(* Rebalancing again: runs of two rebalance calls, from the states of Spec *)
(* and from a faculty in which a section may go back and forth.            *)
(***************************************************************************)

InitRepeat ==
    /\ teachers \in {SampleTeachers, TightTeachers, ShortTeachers, WideTeachers}
    /\ rooms = {"r101"}
    /\ sections = SectionCatalogue
    /\ assignments \in InitAssignments(teachers)
    /\ timeline = << TimelineEntry(0, "system", <<"Scheduling data loaded">>) >>
    /\ clock = MaxCalls - 1
    /\ last = Call(<< >>, Ret("init", TRUE, "init", None, None, "", << >>))
    /\ before = [assignments |-> assignments, timeline |-> timeline, last |-> last]
    /\ inflight = << >>

NextRebalance ==
    \/ \E m \in OverrideArgs : GreedyRebalance(m)
    \/ \E m \in OverrideArgs, env \in SolverEnvs : OptimalRebalance(m, env)

SpecRepeat == InitRepeat /\ [][NextRebalance]_vars

(***************************************************************************)
(* Empty schedules: a faculty without sections (test_empty_state_          *)
(* rebalancing clears sections and assignments), sections without          *)
(* teachers, or neither.                                                   *)
(***************************************************************************)

InitEmpty ==
    /\ \/ /\ teachers \in {SampleTeachers, TightTeachers, ShortTeachers}
          /\ sections = << >>
          /\ assignments = << >>
       \/ /\ teachers = << >>
          /\ sections = SectionCatalogue
          /\ assignments \in InitAssignments(teachers) \cup { << >> }
       \/ /\ teachers = << >>
          /\ sections = << >>
          /\ assignments = << >>
    /\ rooms = {"r101"}
    /\ timeline = << TimelineEntry(0, "system", <<"Scheduling data loaded">>) >>
    /\ clock = 1
    /\ last = Call(<< >>, Ret("init", TRUE, "init", None, None, "", << >>))
    /\ before = [assignments |-> assignments, timeline |-> timeline, last |-> last]
    /\ inflight = << >>

SpecEmpty == InitEmpty /\ [][Next]_vars

(***************************************************************************)
(* Two assign_section calls without serialization. A call first takes its  *)
(* snapshot (state = SCHEDULE_MANAGER.get_state(), a copy), and later runs *)
(* the rest of its body: the checks on the snapshot and on the live state, *)
(* the write and the log. The clock ticks at each of the two steps.        *)
(***************************************************************************)

\* The two callers.
Callers == {1, 2}

Idle ==
    [pc |-> "idle", args |-> << >>, state |-> << >>, read_at |-> 0, done_at |-> 0,
     ret |-> Ret("assign_section", FALSE, "none", None, None, "", << >>)]

\* Mutant: the checks read the live assignments.
SnapshotOf_Live(p) == [get_state EXCEPT !.assignments = assignments]

\* state, as caller p holds it since its get_state()
SnapshotOf(p) == [get_state EXCEPT !.assignments = inflight[p].state]

\* state = SCHEDULE_MANAGER.get_state()
AssignRead(p, section_id, teacher) ==
    /\ inflight[p].pc = "idle"
    /\ inflight' = [inflight EXCEPT ![p] =
                        [Idle EXCEPT !.pc = "read", !.args = <<section_id, teacher>>,
                                     !.state = get_state.assignments,
                                     !.read_at = clock]]
    /\ clock' = Tick
    /\ UNCHANGED <<teachers, rooms, sections, assignments, timeline, last, before>>

\* The rest of core_assign_section, up to its return.
AssignReturn(p) ==
    /\ inflight[p].pc = "read"
    /\ LET r == AssignFrom(SnapshotOf(p), inflight[p].args[1], inflight[p].args[2]) IN
        /\ assignments' = r.assignments
        /\ timeline' = r.timeline
        /\ last' = Call(inflight[p].args, r.ret)
        /\ inflight' = [inflight EXCEPT ![p].pc = "done", ![p].ret = r.ret,
                                        ![p].done_at = clock]
    /\ clock' = Tick
    /\ before' = [assignments |-> assignments, timeline |-> timeline, last |-> last]
    /\ UNCHANGED <<teachers, rooms, sections>>

InitRace ==
    /\ teachers \in {SampleTeachers, TightTeachers}
    /\ rooms = {"r101"}
    /\ sections = SectionCatalogue
    /\ assignments \in {a \in InitAssignments(teachers) :
                          /\ a[1].section_id = SectionCatalogue[1].id
                          /\ \A i \in 2..Len(a) : a[i].teacher_id = None}
    /\ timeline = << TimelineEntry(0, "system", <<"Scheduling data loaded">>) >>
    /\ clock = 1
    /\ last = Call(<< >>, Ret("init", TRUE, "init", None, None, "", << >>))
    /\ before = [assignments |-> assignments, timeline |-> timeline, last |-> last]
    /\ inflight = [p \in Callers |-> Idle]

NextRace ==
    \E p \in Callers :
        \/ \E section_id \in SectionArgs, teacher \in TeacherArgs :
                AssignRead(p, section_id, teacher)
        \/ AssignReturn(p)

SpecRace == InitRace /\ [][NextRace]_vars

(***************************************************************************)
(* Schedules in which some sections have no Assignment record yet: the     *)
(* validator of ScheduleState asks only that every key of assignments is a *)
(* section, and the tests clear or rebuild state.assignments.              *)
(***************************************************************************)

PartialAssignments(faculty) ==
    {SelectSeq(a, LAMBDA r : r.section_id \in keep) :
        a \in {b \in InitAssignments(faculty) : b[1].section_id = SectionCatalogue[1].id},
        keep \in SUBSET {SectionCatalogue[i].id : i \in 1..Len(SectionCatalogue)}}

InitPartial ==
    /\ teachers \in {SampleTeachers, TightTeachers}
    /\ rooms = {"r101"}
    /\ sections = SectionCatalogue
    /\ assignments \in PartialAssignments(teachers)
    /\ timeline = << TimelineEntry(0, "system", <<"Scheduling data loaded">>) >>
    /\ clock = 1
    /\ last = Call(<< >>, Ret("init", TRUE, "init", None, None, "", << >>))
    /\ before = [assignments |-> assignments, timeline |-> timeline, last |-> last]
    /\ inflight = << >>

SpecPartial == InitPartial /\ [][Next]_vars

(***************************************************************************)
(* The overlap tests. Two sections of one slot each are held by the same   *)
(* teacher; find_conflicting_assignments reads them in the order of the    *)
(* assignments, and the two list validators of models.py are run on the    *)
(* list of the two slots.                                                  *)
(***************************************************************************)

OverlapDays == {1, 2}

OverlapHours == {9 * QuartersPerHour, 10 * QuartersPerHour,
                 11 * QuartersPerHour, 12 * QuartersPerHour}

\* The slots TimeSlot.validate_time_order accepts.
OverlapSlots ==
    {TimeSlot(d, p[1], p[2]) :
        d \in OverlapDays,
        p \in {q \in OverlapHours \X OverlapHours : q[2] > q[1]}}

\* slot1.day == slot2.day and not (slot1.end_hour <= slot2.start_hour or
\* slot2.end_hour <= slot1.start_hour)
SlotsOverlap(slot1, slot2) ==
    /\ slot1.day = slot2.day
    /\ ~(\/ slot1.end_hour <= slot2.start_hour
         \/ slot2.end_hour <= slot1.start_hour)

\* Teacher.validate_no_overlapping_slots: raises on the first overlapping pair.
validate_no_overlapping_slots(v) ==
    IF \E i \in 1..Len(v) : \E j \in (i + 1)..Len(v) : SlotsOverlap(v[i], v[j])
    THEN "ValueError" ELSE "ok"

\* CourseSection.validate_no_overlapping_timeslots: the same loop.
validate_no_overlapping_timeslots(v) ==
    IF \E i \in 1..Len(v) : \E j \in (i + 1)..Len(v) : SlotsOverlap(v[i], v[j])
    THEN "ValueError" ELSE "ok"

\* The two slots of the state, in the order of the sections.
BothSlots == sections[1].timeslots \o sections[2].timeslots

FindConflicts ==
    /\ clock <= MaxCalls
    /\ last' = Call(<< >>,
                    Ret("find_conflicting_assignments", TRUE,
                        IF find_conflicting_assignments = << >> THEN "no_conflict"
                        ELSE "conflict",
                        None, None, "", <<Len(find_conflicting_assignments)>>))
    /\ clock' = Tick
    /\ before' = [assignments |-> assignments, timeline |-> timeline, last |-> last]
    /\ UNCHANGED <<teachers, rooms, sections, assignments, timeline, inflight>>

ValidateAvailability ==
    /\ clock <= MaxCalls
    /\ LET r == validate_no_overlapping_slots(BothSlots) IN
        last' = Call(<< >>, Ret("validate_no_overlapping_slots", r = "ok",
                                IF r = "ok" THEN "no_conflict" ELSE "conflict",
                                None, None, r, << >>))
    /\ clock' = Tick
    /\ before' = [assignments |-> assignments, timeline |-> timeline, last |-> last]
    /\ UNCHANGED <<teachers, rooms, sections, assignments, timeline, inflight>>

ValidateTimeslots ==
    /\ clock <= MaxCalls
    /\ LET r == validate_no_overlapping_timeslots(BothSlots) IN
        last' = Call(<< >>, Ret("validate_no_overlapping_timeslots", r = "ok",
                                IF r = "ok" THEN "no_conflict" ELSE "conflict",
                                None, None, r, << >>))
    /\ clock' = Tick
    /\ before' = [assignments |-> assignments, timeline |-> timeline, last |-> last]
    /\ UNCHANGED <<teachers, rooms, sections, assignments, timeline, inflight>>

InitOverlap ==
    /\ teachers = SampleTeachers
    /\ rooms = {"r101"}
    /\ \E a \in OverlapSlots, b \in OverlapSlots :
          sections = << CourseSection("CS101-A", "CS101", <<a>>),
                        CourseSection("CS101-B", "CS101", <<b>>) >>
    /\ assignments = << Assignment("CS101-A", "t_alice", None, 0),
                        Assignment("CS101-B", "t_alice", None, 0) >>
    /\ timeline = << TimelineEntry(0, "system", <<"Scheduling data loaded">>) >>
    /\ clock = 1
    /\ last = Call(<< >>, Ret("init", TRUE, "init", None, None, "", << >>))
    /\ before = [assignments |-> assignments, timeline |-> timeline, last |-> last]
    /\ inflight = << >>

NextOverlap == FindConflicts \/ ValidateAvailability \/ ValidateTimeslots

SpecOverlap == InitOverlap /\ [][NextOverlap]_vars

(***************************************************************************)
(* Schedules in which MATH201-A, a section nobody of the faculty is        *)
(* qualified for, is held by any teacher or by none: ScheduleState checks  *)
(* the references of an assignment, not the qualification.                 *)
(***************************************************************************)

StrayAssignments(faculty) ==
    {[a EXCEPT ![Len(a)].teacher_id = t] :
        a \in {b \in InitAssignments(faculty) : b[1].section_id = SectionCatalogue[1].id},
        t \in {faculty[j].id : j \in 1..Len(faculty)} \cup {None}}

InitStray ==
    /\ teachers \in {TightTeachers, ShortTeachers}
    /\ rooms = {"r101"}
    /\ sections = SectionCatalogue
    /\ assignments \in StrayAssignments(teachers)
    /\ timeline = << TimelineEntry(0, "system", <<"Scheduling data loaded">>) >>
    /\ clock = 1
    /\ last = Call(<< >>, Ret("init", TRUE, "init", None, None, "", << >>))
    /\ before = [assignments |-> assignments, timeline |-> timeline, last |-> last]
    /\ inflight = << >>

SpecStray == InitStray /\ [][Next]_vars

(***************************************************************************)
(* greedy_rebalance, one iteration of its outer loop at a time. inflight   *)
(* holds the locals of the call: the position in the assignments, the      *)
(* tracked teacher_loads, and what the last iteration saw and did.         *)
(***************************************************************************)

NoVisit ==
    [index |-> 0, section |-> None, from |-> None, to |-> None,
     loads |-> [t \in {} |-> 0], entries |-> 0]

\* teacher_loads = {}; for teacher_id, teacher in ...: teacher_loads[teacher_id] = compute_teacher_load(teacher)
GreedyBegin(max_load_hours) ==
    /\ clock <= MaxCalls
    /\ inflight.pc = "idle"
    /\ inflight' = [pc |-> "loop", i |-> 1,
                    teacher_loads |-> [t \in TeacherIds |-> compute_teacher_load(t)],
                    now |-> clock, max_load_hours |-> max_load_hours,
                    visit |-> NoVisit]
    /\ before' = [assignments |-> assignments, timeline |-> timeline, last |-> last]
    /\ clock' = Tick
    /\ UNCHANGED <<teachers, rooms, sections, assignments, timeline, last>>

\* One iteration of: for assignment in self.state.assignments.values()
GreedyVisit ==
    /\ inflight.pc = "loop"
    /\ inflight.i <= Len(assignments)
    /\ LET i == inflight.i
           assignment == assignments[i]
           section == SectionById(assignment.section_id)
           section_hours == get_credit_hours(section)
           best_teacher ==
                IF assignment.teacher_id = None THEN None
                ELSE PickBest(assignment, section, inflight.teacher_loads, 1, None, 0)
           seen == [index |-> i, section |-> assignment.section_id,
                    from |-> assignment.teacher_id, to |-> best_teacher,
                    loads |-> inflight.teacher_loads, entries |-> Len(timeline)]
       IN IF best_teacher = None
          THEN /\ inflight' = [inflight EXCEPT !.i = i + 1, !.visit = seen]
               /\ UNCHANGED <<assignments, timeline>>
          ELSE /\ assignments' = GreedyMove(assignments, i, best_teacher, inflight.now)
               /\ timeline' = log(timeline, inflight.now,
                                  <<"Rebalanced", assignment.section_id,
                                    TeacherById(assignment.teacher_id).name,
                                    TeacherById(best_teacher).name>>, "assignment")
               /\ inflight' = [inflight EXCEPT
                                 !.i = i + 1, !.visit = seen,
                                 !.teacher_loads =
                                     GreedyTrack(@, assignment.teacher_id, best_teacher,
                                                 section_hours)]
    /\ UNCHANGED <<teachers, rooms, sections, clock, last, before>>

\* return self.state
GreedyEnd ==
    /\ inflight.pc = "loop"
    /\ inflight.i > Len(assignments)
    /\ last' = Call(<< >>, Ret("greedy_rebalance", TRUE, "greedy", None, None, "",
                              inflight.max_load_hours))
    /\ inflight' = [inflight EXCEPT !.pc = "idle"]
    /\ UNCHANGED <<teachers, rooms, sections, assignments, timeline, clock, before>>

InitSteps ==
    /\ teachers \in {PeerTeachers, TightTeachers, WideTeachers}
    /\ rooms = {"r101"}
    /\ sections = SectionCatalogue
    /\ assignments \in InitAssignments(teachers)
    /\ timeline = << TimelineEntry(0, "system", <<"Scheduling data loaded">>) >>
    /\ clock = 1
    /\ last = Call(<< >>, Ret("init", TRUE, "init", None, None, "", << >>))
    /\ before = [assignments |-> assignments, timeline |-> timeline, last |-> last]
    /\ inflight = [pc |-> "idle", i |-> 1, teacher_loads |-> [t \in TeacherIds |-> 0],
                   now |-> 0, max_load_hours |-> << >>, visit |-> NoVisit]

NextSteps ==
    \/ \E m \in OverrideArgs : GreedyBegin(m)
    \/ GreedyVisit
    \/ GreedyEnd

SpecSteps == InitSteps /\ [][NextSteps]_vars

(***************************************************************************)
(* find_conflicting_assignments over schedules of sections that meet       *)
(* twice a week: CS101-A and CS101-B overlap on both of their days,        *)
(* MATH201-A overlaps CS101-A on Wednesday only and touches CS101-B.       *)
(***************************************************************************)

TwiceAWeek ==
    << CourseSection("CS101-A", "CS101", << TimeSlot(1, 36, 44), TimeSlot(3, 36, 44) >>),
       CourseSection("CS101-B", "CS101", << TimeSlot(1, 40, 45), TimeSlot(3, 32, 40) >>),
       CourseSection("MATH201-A", "MATH201", << TimeSlot(3, 40, 48), TimeSlot(5, 36, 44) >>) >>

\* The orders a dict of three keys may have.
Orders ==
    {p \in [1..Len(TwiceAWeek) -> 1..Len(TwiceAWeek)] :
        \A i \in 1..Len(TwiceAWeek), j \in 1..Len(TwiceAWeek) : i # j => p[i] # p[j]}

InitConflicts ==
    /\ teachers = PeerTeachers
    /\ rooms = {"r101"}
    /\ sections = TwiceAWeek
    /\ \E p \in Orders, f \in [1..Len(TwiceAWeek) -> {"t_alice", "t_bob", None}] :
          assignments = [i \in 1..Len(TwiceAWeek) |->
                            Assignment(TwiceAWeek[p[i]].id, f[p[i]], None, 0)]
    /\ timeline = << TimelineEntry(0, "system", <<"Scheduling data loaded">>) >>
    /\ clock = 1
    /\ last = Call(<< >>, Ret("init", TRUE, "init", None, None, "", << >>))
    /\ before = [assignments |-> assignments, timeline |-> timeline, last |-> last]
    /\ inflight = << >>

NextConflicts == FindConflicts

SpecConflicts == InitConflicts /\ [][NextConflicts]_vars

(***************************************************************************)
(* greedy_rebalance called again and again with no other call in between.  *)
(* inflight remembers the teachers of the schedule the first call started  *)
(* from; the calls leave it alone.                                         *)
(***************************************************************************)

TeachersIn(asg) == [i \in 1..Len(asg) |-> asg[i].teacher_id]

InitAgain ==
    /\ teachers \in {SampleTeachers, TightTeachers, WideTeachers, PeerTeachers}
    /\ rooms = {"r101"}
    /\ sections = SectionCatalogue
    /\ assignments \in InitAssignments(teachers)
    /\ timeline = << TimelineEntry(0, "system", <<"Scheduling data loaded">>) >>
    /\ clock = MaxCalls - 1
    /\ last = Call(<< >>, Ret("init", TRUE, "init", None, None, "", << >>))
    /\ before = [assignments |-> assignments, timeline |-> timeline, last |-> last]
    /\ inflight = TeachersIn(assignments)

NextAgain == \E m \in OverrideArgs : GreedyRebalance(m)

SpecAgain == InitAgain /\ [][NextAgain]_vars

(***************************************************************************)
(* optimal_rebalance in two steps, with a solver at hand: the deepcopy of  *)
(* the state, and later the solve, the apply loop on the copy and          *)
(* self.state = new_state. assign_section and try_swap may run on the live *)
(* state in between. inflight holds the locals of the call.                *)
(***************************************************************************)

NoCopy == [pc |-> "idle", new_state |-> [assignments |-> << >>, timeline |-> << >>],
           max_load_hours |-> << >>]

\* new_state = copy.deepcopy(self.state)
OptimalCopy(max_load_hours) ==
    /\ clock <= MaxCalls
    /\ inflight.pc = "idle"
    /\ ~NothingToSolve
    /\ inflight' = [pc |-> "copied", new_state |-> new_state,
                    max_load_hours |-> max_load_hours]
    /\ UNCHANGED <<teachers, rooms, sections, assignments, timeline, clock, last, before>>

\* status = solver.Solve() and what follows it. before is the live state the
\* step found: the one self.state = new_state replaces.
OptimalFinish ==
    /\ inflight.pc = "copied"
    /\ \E solved \in Solve(inflight.max_load_hours) :
        LET r == IF solved.status = "OPTIMAL" \/ solved.status = "FEASIBLE"
                 THEN [path |-> "solved"]
                      @@ ApplySolution(inflight.new_state.assignments,
                                       inflight.new_state.timeline, solved.x, 1, clock)
                 ELSE [path |-> "infeasible"]
                      @@ SolveFailed(inflight.max_load_hours, clock)
        IN
        /\ assignments' = r.assignments
        /\ timeline' = r.timeline
        /\ last' = Call(<<"ok">>, Ret("optimal_rebalance", TRUE, r.path, None, None, "",
                                     inflight.max_load_hours))
    /\ clock' = Tick
    /\ before' = [assignments |-> assignments, timeline |-> timeline, last |-> last]
    /\ inflight' = [inflight EXCEPT !.pc = "idle"]
    /\ UNCHANGED <<teachers, rooms, sections>>

InitCopy ==
    /\ teachers \in {SampleTeachers, TightTeachers}
    /\ rooms = {"r101"}
    /\ sections = SectionCatalogue
    /\ assignments \in {a \in InitAssignments(teachers) :
                          /\ a[1].section_id = SectionCatalogue[1].id
                          /\ \A i \in 2..Len(a) : a[i].teacher_id = None}
    /\ timeline = << TimelineEntry(0, "system", <<"Scheduling data loaded">>) >>
    /\ clock = 1
    /\ last = Call(<< >>, Ret("init", TRUE, "init", None, None, "", << >>))
    /\ before = [assignments |-> assignments, timeline |-> timeline, last |-> last]
    /\ inflight = NoCopy

NextCopy ==
    \/ \E m \in OverrideArgs : OptimalCopy(m)
    \/ OptimalFinish
    \/ \E section_id \in SectionArgs, teacher \in TeacherArgs :
            AssignSection(section_id, teacher)
    \/ \E section_id \in SectionArgs, f \in SwapTeacherArgs, t \in SwapTeacherArgs :
            TrySwap(section_id, f, t)

SpecCopy == InitCopy /\ [][NextCopy]_vars

(***************************************************************************)
(* Properties. Each is a predicate on the state a call leaves: last is the *)
(* call, before the assignments and timeline it started from.              *)
(***************************************************************************)

\* Every assigned section of asg is taught by a teacher qualified for its course.
Qualified(asg) ==
    \A i \in 1..Len(asg) :
        asg[i].teacher_id # None =>
            SectionById(asg[i].section_id).course_code
                \in TeacherById(asg[i].teacher_id).qualified_courses

\* Some section of the last call's pre-state has another teacher now.
Moved ==
    \E i \in 1..Len(before.assignments) :
        before.assignments[i].teacher_id # None
        /\ before.assignments[i].teacher_id
              # TeacherOf(assignments, before.assignments[i].section_id)

IsRebalance == last.op \in {"greedy_rebalance", "optimal_rebalance"}

NoOverride == last.value = << >>

LoadBefore(tid) == compute_load_for_state(before.assignments, tid)

MaxLoadOf(tid) == TeacherById(tid).max_load_hours

WeeklyHours(sid) == SlotHours(SectionById(sid).timeslots, 1)

\* The timeline is the one before the call with n entries appended.
Appended(n) ==
    /\ Len(timeline) = Len(before.timeline) + n
    /\ SubSeq(timeline, 1, Len(before.timeline)) = before.timeline

\* Every assignment but the one of section sid is as before the call.
OthersUnchanged(sid) ==
    /\ Len(assignments) = Len(before.assignments)
    /\ \A i \in 1..Len(assignments) :
          assignments[i].section_id # sid => assignments[i] = before.assignments[i]

RECURSIVE TotalLoadFrom(_, _)
TotalLoadFrom(asg, j) ==
    IF j > Len(teachers) THEN 0
    ELSE compute_load_for_state(asg, teachers[j].id) + TotalLoadFrom(asg, j + 1)

\* sum(compute_teacher_load(t) for t in teachers)
TotalLoad(asg) == TotalLoadFrom(asg, 1)

\* C1: a call (assign_section, try_swap, greedy_rebalance, optimal_rebalance,
\* successful or failed) that starts from a schedule in which every assigned
\* teacher is qualified for the section's course leaves such a schedule; so the
\* qualification invariant holds after any sequence of calls.
C1_QualificationInvariant == Qualified(before.assignments) => Qualified(assignments)

\* C1 witness: a rebalance moved a section in a qualified schedule.
C1_Witness ==
    /\ IsRebalance
    /\ Moved
    /\ Qualified(before.assignments)
    /\ Qualified(assignments)

\* C2 as claimed: after a rebalance without an override, from any pre-state, no
\* teacher's load exceeds their max_load_hours.
C2_Original ==
    (IsRebalance /\ NoOverride) =>
        \A tid \in TeacherIds : compute_teacher_load(tid) <= MaxLoadOf(tid)

\* C2 amended: after a rebalance without an override, from a pre-state whose
\* assigned teachers are all qualified, every teacher's load is at most their
\* max_load_hours, or, for a teacher who was above it before the call, at most
\* the load they had before.
C2_MaxLoadNoOverride ==
    (IsRebalance /\ NoOverride /\ Qualified(before.assignments)) =>
        \A tid \in TeacherIds :
            \/ compute_teacher_load(tid) <= MaxLoadOf(tid)
            \/ compute_teacher_load(tid) <= LoadBefore(tid)

\* C2 witness: a rebalance without an override moved sections off an overloaded
\* teacher of a qualified schedule.
C2_Witness ==
    /\ IsRebalance /\ NoOverride /\ Moved
    /\ Qualified(before.assignments)
    /\ \E tid \in TeacherIds :
          /\ LoadBefore(tid) > MaxLoadOf(tid)
          /\ compute_teacher_load(tid) < LoadBefore(tid)

\* C3 as claimed: after a rebalance called with an override m (0 included), every
\* teacher's load is at most m.
C3_Original ==
    (IsRebalance /\ ~NoOverride) =>
        \A tid \in TeacherIds : compute_teacher_load(tid) <= last.value[1]

\* The hours of the sections that had no teacher before the call and have a
\* qualified teacher.
RECURSIVE UnassignedHoursFrom(_)
UnassignedHoursFrom(i) ==
    IF i > Len(sections) THEN 0
    ELSE (IF /\ TeacherOf(before.assignments, sections[i].id) = None
             /\ QualifiedTeachers(sections[i]) # {}
          THEN get_credit_hours(sections[i]) ELSE 0)
         + UnassignedHoursFrom(i + 1)

\* C4 as claimed: the sum of the teachers' loads is the same before and after
\* any rebalance, from any pre-state.
C4_Original == IsRebalance => TotalLoad(assignments) = TotalLoad(before.assignments)

\* C4 amended: a rebalance leaves the sum of the teachers' loads as it was,
\* except that an optimal_rebalance that applies a solution also gives a teacher
\* to every section that had none and has a qualified teacher, which raises the
\* sum by those sections' hours.
C4_LoadConservation ==
    IsRebalance =>
        TotalLoad(assignments) =
            TotalLoad(before.assignments)
            + (IF last.kind = "solved" THEN UnassignedHoursFrom(1) ELSE 0)

\* C4 witness: a rebalance moved a section between teachers and the sum of the
\* loads is what it was.
C4_Witness ==
    /\ IsRebalance /\ Moved
    /\ TotalLoad(before.assignments) > 0
    /\ TotalLoad(assignments) = TotalLoad(before.assignments)

\* C5: when assign_section or try_swap reports a failure, the assignments
\* (teacher_id, room_id, assigned_at of each) and the timeline are exactly those
\* before the call.
C5_NoPartialWrites ==
    (last.op \in {"assign_section", "try_swap"} /\ ~last.ok) =>
        /\ assignments = before.assignments
        /\ timeline = before.timeline

\* C5 witness: a try_swap was refused on its last check, the qualification of
\* the target.
C5_Witness ==
    /\ last.op = "try_swap" /\ ~last.ok /\ last.kind = "not_qualified"
    /\ assignments = before.assignments

\* C6: assign_section on a section that has a teacher fails, whatever the teacher
\* argument; the failure names the section's current teacher and the section
\* keeps that teacher.
C6_DoubleAssignment ==
    (/\ last.op = "assign_section"
     /\ TeacherOf(before.assignments, last.args[1]) # None) =>
        /\ ~last.ok
        /\ last.kind = "already_assigned"
        /\ last.teacher = TeacherById(TeacherOf(before.assignments, last.args[1])).name
        /\ TeacherOf(assignments, last.args[1]) = TeacherOf(before.assignments, last.args[1])

\* C6 witness: a section with a teacher was asked for a teacher who does not
\* exist, and the call was refused naming the current teacher.
C6_Witness ==
    /\ last.op = "assign_section"
    /\ TeacherOf(before.assignments, last.args[1]) # None
    /\ teacher_name_to_id(last.args[2]) = None
    /\ last.kind = "already_assigned"

\* The outcome the ordered preconditions of assign_section(section_id, teacher)
\* give in the state before the call: the first that fails, or "assigned".
ExpectedAssign(section_id, teacher) ==
    IF section_id \notin AssignmentKeys(before.assignments) THEN "section_not_found"
    ELSE IF TeacherOf(before.assignments, section_id) # None THEN "already_assigned"
    ELSE IF teacher_name_to_id(teacher) = None THEN "teacher_not_found"
    ELSE IF SectionById(section_id).course_code
               \notin TeacherById(teacher_name_to_id(teacher)).qualified_courses
    THEN "not_qualified"
    ELSE IF LoadBefore(teacher_name_to_id(teacher)) + WeeklyHours(section_id)
               > MaxLoadOf(teacher_name_to_id(teacher))
    THEN "would_overload"
    ELSE "assigned"

\* C7: assign_section reports the first precondition that fails in the order
\* section unknown or already assigned, teacher does not resolve, teacher not
\* qualified, load would exceed max_load_hours, each as a distinct outcome, and
\* succeeds exactly when none fails; a resulting load equal to max_load_hours is
\* accepted.
C7_PreconditionOrder ==
    last.op = "assign_section" =>
        /\ last.kind = ExpectedAssign(last.args[1], last.args[2])
        /\ last.ok <=> last.kind = "assigned"

\* C7 witness: the teacher was neither qualified nor able to take the hours, and
\* the call reported the qualification.
C7_Witness ==
    /\ last.op = "assign_section" /\ last.kind = "not_qualified"
    /\ LoadBefore(teacher_name_to_id(last.args[2])) + WeeklyHours(last.args[1])
          > MaxLoadOf(teacher_name_to_id(last.args[2]))

\* What a successful assign_section leaves, but for the load it reports: the
\* section has the resolved teacher, its room_id and every other assignment are
\* as before, one timeline entry of kind assignment was appended, and the
\* teacher's load is the load before plus the section's weekly hours.
AssignEffects ==
    LET section_id == last.args[1]
        teacher_id == teacher_name_to_id(last.args[2])
    IN /\ TeacherOf(assignments, section_id) = teacher_id
       /\ AssignmentOf(assignments, section_id).room_id
             = AssignmentOf(before.assignments, section_id).room_id
       /\ OthersUnchanged(section_id)
       /\ Appended(1)
       /\ timeline[Len(timeline)].kind = "assignment"
       /\ compute_teacher_load(teacher_id) = LoadBefore(teacher_id) + WeeklyHours(section_id)

\* C8 as claimed: a successful assign_section has the effects above and reports
\* a new load equal to the teacher's load before the call plus the section's
\* weekly hours. The report is in tenths of an hour, the load in quarters.
C8_Original ==
    (last.op = "assign_section" /\ last.ok) =>
        /\ AssignEffects
        /\ last.value[1] * QuartersPerHour
              = (LoadBefore(teacher_name_to_id(last.args[2])) + WeeklyHours(last.args[1])) * 10

\* C8 amended: a successful assign_section has the effects above and reports the
\* teacher's load before the call plus the section's weekly hours rounded to one
\* decimal place, so within 0.05 hours of the teacher's load after the call.
C8_AssignEffects ==
    (last.op = "assign_section" /\ last.ok) =>
        /\ AssignEffects
        /\ Abs(last.value[1] * QuartersPerHour
               - (LoadBefore(teacher_name_to_id(last.args[2])) + WeeklyHours(last.args[1])) * 10)
              <= 2

\* C8 witness: a successful assign_section reported a load that differs from the
\* teacher's load after the call.
C8_Witness ==
    /\ last.op = "assign_section" /\ last.ok
    /\ last.value[1] * QuartersPerHour
          # compute_teacher_load(teacher_name_to_id(last.args[2])) * 10

\* The preconditions of try_swap(section_id, from, to) in the state before the call.
SwapAllowed(section_id, from_teacher_id, to_teacher_id) ==
    /\ section_id \in AssignmentKeys(before.assignments)
    /\ from_teacher_id \in TeacherIds
    /\ to_teacher_id \in TeacherIds
    /\ TeacherOf(before.assignments, section_id) = from_teacher_id
    /\ SectionById(section_id).course_code \in TeacherById(to_teacher_id).qualified_courses
    /\ LoadBefore(to_teacher_id) + WeeklyHours(section_id) <= MaxLoadOf(to_teacher_id)

\* C9: try_swap succeeds exactly when the section exists, both teachers exist,
\* the section's teacher is from, to is qualified and to's load plus the
\* section's weekly hours is at most to's max_load_hours; a success gives the
\* section to to, appends one timeline entry and changes no other assignment, so
\* that, when from and to differ, from's load drops and to's load rises by the
\* section's weekly hours.
C9_TrySwap ==
    last.op = "try_swap" =>
        LET section_id == last.args[1]
            from_teacher_id == last.args[2]
            to_teacher_id == last.args[3]
        IN /\ last.ok <=> SwapAllowed(section_id, from_teacher_id, to_teacher_id)
           /\ last.ok =>
                /\ TeacherOf(assignments, section_id) = to_teacher_id
                /\ Appended(1)
                /\ OthersUnchanged(section_id)
                /\ from_teacher_id # to_teacher_id =>
                      /\ compute_teacher_load(from_teacher_id)
                            = LoadBefore(from_teacher_id) - WeeklyHours(section_id)
                      /\ compute_teacher_load(to_teacher_id)
                            = LoadBefore(to_teacher_id) + WeeklyHours(section_id)

\* C9 witness: a try_swap between two teachers succeeded and brought the target
\* to exactly its max_load_hours.
C9_Witness ==
    /\ last.op = "try_swap" /\ last.ok
    /\ last.args[2] # last.args[3]
    /\ compute_teacher_load(last.args[3]) = MaxLoadOf(last.args[3])

\* C10 as claimed: when optimal_rebalance cannot use a solution (no library, no
\* solver, no feasible model) the timeline has gained a system entry, followed
\* by what greedy_rebalance logs, and the assignments are those greedy_rebalance
\* gives from the state before the call.
C10_Original ==
    (last.op = "optimal_rebalance" /\ last.kind \in {"no_module", "no_solver", "infeasible"}) =>
        /\ Len(timeline) > Len(before.timeline)
        /\ timeline[Len(before.timeline) + 1].kind = "system"
        /\ assignments
              = greedy_rebalance(before.assignments, before.timeline, last.value,
                                 clock - 1).assignments

\* C11: in the scenario of the tests (Alice 8h with the four 2-hour CS sections,
\* Chen 6h with the 2-hour MATH section, Bob 8h with nothing) find_overload() is
\* empty, and every result of optimal_rebalance() without an override, whatever
\* optimum the solver answers, leaves Alice at 4h, Bob at 4h and Chen at 2h,
\* 10h in total.
C11_Scenario ==
    /\ assignments = ScenarioAssignments => find_overload = {}
    /\ (/\ before.assignments = ScenarioAssignments
        /\ last.op = "optimal_rebalance" /\ NoOverride) =>
          /\ compute_teacher_load("t_alice") = 4 * QuartersPerHour
          /\ compute_teacher_load("t_bob") = 4 * QuartersPerHour
          /\ compute_teacher_load("t_chen") = 2 * QuartersPerHour
          /\ TotalLoad(assignments) = 10 * QuartersPerHour

\* C11 witness: the solver answered the scenario and CS101-A went to Bob.
C11_Witness ==
    /\ before.assignments = ScenarioAssignments
    /\ last.op = "optimal_rebalance" /\ NoOverride /\ last.kind = "solved"
    /\ TeacherOf(assignments, "CS101-A") = "t_bob"
    /\ compute_teacher_load("t_alice") = 4 * QuartersPerHour

\* The objective of optimal_rebalance at the loads of asg: the summed absolute
\* deviation from total_hours / num_teachers, times num_teachers.
Deviation(asg) ==
    Objective([tid \in TeacherIds |-> compute_load_for_state(asg, tid)], TotalHoursFrom(1))

\* The last two calls were optimal_rebalance with the same override and a solver
\* at hand, and the first applied a solution.
OptimalAgain ==
    /\ before.last.op = "optimal_rebalance" /\ before.last.kind = "solved"
    /\ last.op = "optimal_rebalance" /\ last.args = <<"ok">>
    /\ last.value = before.last.value

C13_Original ==
    (last.op = "greedy_rebalance" /\ before.last.op = "greedy_rebalance") =>
        \A i \in 1..Len(sections) :
            TeacherOf(assignments, sections[i].id)
                = TeacherOf(before.assignments, sections[i].id)

\* The schedule has no sections or no teachers.
EmptySchedule == Len(sections) = 0 \/ Len(teachers) = 0

\* C14 as claimed: on a schedule without sections or without teachers
\* optimal_rebalance leaves assignments and timeline as they were (teachers and
\* sections are never written).
C14_Original ==
    (EmptySchedule /\ last.op = "optimal_rebalance") =>
        /\ assignments = before.assignments
        /\ timeline = before.timeline

\* C14 amended: on a schedule without sections or without teachers
\* optimal_rebalance changes no assignment; it leaves the timeline as it was
\* when the solver library and a solver are at hand, and otherwise appends the
\* one system entry of the fallback.
C14_EmptyNoOp ==
    (EmptySchedule /\ last.op = "optimal_rebalance") =>
        /\ assignments = before.assignments
        /\ IF last.args = <<"ok">> THEN timeline = before.timeline
           ELSE Appended(1) /\ timeline[Len(timeline)].kind = "system"

\* C14 witness: optimal_rebalance returned early on sections without teachers
\* and without Assignment records.
C14_Witness ==
    /\ Len(teachers) = 0 /\ Len(sections) # 0 /\ before.assignments = << >>
    /\ last.op = "optimal_rebalance" /\ last.kind = "empty"
    /\ assignments = << >>

\* C15 as claimed: a call that starts from a schedule in which
\* find_conflicting_assignments() is empty leaves it empty: no call gives a
\* teacher two sections with overlapping timeslots.
C15_Original == ConflictsIn(before.assignments) = << >> => find_conflicting_assignments = << >>

\* Both callers have returned.
BothDone == \A p \in Callers : inflight[p].pc = "done"

\* The caller that took its snapshot first, and the one that returned last.
FirstReader == CHOOSE p \in Callers : \A q \in Callers : inflight[p].read_at <= inflight[q].read_at

LastWriter == CHOOSE p \in Callers : \A q \in Callers : inflight[q].done_at <= inflight[p].done_at

\* One call returned before the other took its snapshot.
Serialized ==
    \E p \in Callers, q \in Callers : inflight[p].done_at < inflight[q].read_at

\* The two calls ask for the same section, without a teacher when the first
\* snapshot was taken, for two different teachers who are qualified for it and
\* have room for it.
RaceCase ==
    /\ BothDone
    /\ inflight[1].args[1] = inflight[2].args[1]
    /\ inflight[1].args[1] \in AssignmentKeys(inflight[FirstReader].state)
    /\ TeacherOf(inflight[FirstReader].state, inflight[1].args[1]) = None
    /\ teacher_name_to_id(inflight[1].args[2]) # teacher_name_to_id(inflight[2].args[2])
    /\ \A p \in Callers :
          LET tid == teacher_name_to_id(inflight[p].args[2]) IN
          /\ tid # None
          /\ SectionById(inflight[p].args[1]).course_code
                \in TeacherById(tid).qualified_courses
          /\ compute_load_for_state(inflight[FirstReader].state, tid)
                + WeeklyHours(inflight[p].args[1]) <= MaxLoadOf(tid)

\* C16: of two assign_section calls for the same unassigned section and two
\* different qualified teachers with room for it, exactly one succeeds and the
\* other fails with already assigned when one returns before the other reads;
\* when both read before either returns, both pass the check on their stale
\* snapshot and both report success, and the Assignment has the teacher of the
\* call that wrote last.
C16_AssignRace ==
    RaceCase =>
        /\ Serialized =>
              /\ inflight[FirstReader].ret.ok
              /\ ~inflight[LastWriter].ret.ok
              /\ inflight[LastWriter].ret.kind = "already_assigned"
              /\ TeacherOf(assignments, inflight[1].args[1])
                    = teacher_name_to_id(inflight[FirstReader].args[2])
        /\ ~Serialized =>
              /\ \A p \in Callers : inflight[p].ret.ok
              /\ TeacherOf(assignments, inflight[1].args[1])
                    = teacher_name_to_id(inflight[LastWriter].args[2])

\* C16 witness: both calls took their snapshot before either returned, both
\* reported success, and the section has the last writer's teacher only.
C16_Witness ==
    /\ RaceCase /\ ~Serialized
    /\ \A p \in Callers : inflight[p].ret.ok
    /\ TeacherOf(assignments, inflight[1].args[1])
          # teacher_name_to_id(inflight[FirstReader].args[2])
    /\ FirstReader # LastWriter

\* The timeline before the last call is a prefix of the timeline after it.
TimelinePrefix ==
    /\ Len(before.timeline) <= Len(timeline)
    /\ SubSeq(timeline, 1, Len(before.timeline)) = before.timeline

Chronological ==
    \A i \in 2..Len(timeline) : timeline[i - 1].timestamp <= timeline[i].timestamp

RecordsOf(sid) == Cardinality({i \in 1..Len(assignments) : assignments[i].section_id = sid})

\* C18: in every reachable state every key of assignments is a section, every
\* teacher_id that is not None is a teacher and every room_id that is not None
\* is a room; and after an optimal_rebalance that solved, every section has
\* exactly one Assignment record.
C18_ReferentialIntegrity ==
    /\ \A i \in 1..Len(assignments) :
          /\ \E j \in 1..Len(sections) : sections[j].id = assignments[i].section_id
          /\ assignments[i].teacher_id # None
                => \E j \in 1..Len(teachers) : teachers[j].id = assignments[i].teacher_id
          /\ assignments[i].room_id # None => assignments[i].room_id \in rooms
    /\ (last.op = "optimal_rebalance" /\ last.kind = "solved")
          => \A j \in 1..Len(sections) : RecordsOf(sections[j].id) = 1

\* C18 witness: optimal_rebalance solved a schedule in which a section had no
\* Assignment record, and created the record.
C18_Witness ==
    /\ last.op = "optimal_rebalance" /\ last.kind = "solved"
    /\ Len(before.assignments) < Len(sections)
    /\ \A j \in 1..Len(sections) : RecordsOf(sections[j].id) = 1
    /\ \E i \in 1..Len(assignments) : assignments[i].teacher_id # None

\* The last call was one of the three overlap tests.
IsOverlapTest ==
    last.op \in {"find_conflicting_assignments", "validate_no_overlapping_slots",
                 "validate_no_overlapping_timeslots"}

\* Same day and not (a.end <= b.start or b.end <= a.start).
Overlaps(a, b) ==
    a.day = b.day /\ ~(a.end_hour <= b.start_hour \/ b.end_hour <= a.start_hour)

\* C19: find_conflicting_assignments and the two validators flag two slots
\* exactly when they are on the same day and not (a.end <= b.start or
\* b.end <= a.start); slots that touch and slots on different days are never
\* flagged, and the predicate gives the same answer for the two orders.
C19_OverlapBoundary ==
    IsOverlapTest =>
        LET a == BothSlots[1]
            b == BothSlots[2]
        IN /\ (last.kind = "conflict") <=> Overlaps(a, b)
           /\ a.end_hour = b.start_hour => last.kind = "no_conflict"
           /\ a.day # b.day => last.kind = "no_conflict"
           /\ SlotsConflict(a, b) <=> SlotsConflict(b, a)
           /\ SlotsOverlap(a, b) <=> SlotsOverlap(b, a)

\* C19 witness: find_conflicting_assignments reports nothing for two slots of
\* the same day of which the first ends when the second starts.
C19_Witness ==
    /\ last.op = "find_conflicting_assignments"
    /\ BothSlots[1].day = BothSlots[2].day
    /\ BothSlots[1].end_hour = BothSlots[2].start_hour
    /\ last.kind = "no_conflict"

RECURSIVE SquaredLoadFrom(_, _)
SquaredLoadFrom(asg, j) ==
    IF j > Len(teachers) THEN 0
    ELSE compute_load_for_state(asg, teachers[j].id) * compute_load_for_state(asg, teachers[j].id)
         + SquaredLoadFrom(asg, j + 1)

\* The variance of the teachers' loads in asg, times num_teachers squared.
Variance(asg) == Len(teachers) * SquaredLoadFrom(asg, 1) - TotalLoad(asg) * TotalLoad(asg)

\* The last call was an optimal_rebalance that applied a solution.
OptimalSolved == last.op = "optimal_rebalance" /\ last.kind = "solved"

\* The schedule before the last call meets the constraints of the integer
\* program: every section with a qualified teacher has one of them, no other
\* section has a teacher, and no load is above the cap in force.
FeasibleBefore ==
    /\ \A j \in 1..Len(sections) :
          /\ sections[j].id \in AssignmentKeys(before.assignments)
          /\ IF QualifiedTeachers(sections[j]) = {}
             THEN TeacherOf(before.assignments, sections[j].id) = None
             ELSE TeacherOf(before.assignments, sections[j].id)
                    \in QualifiedTeachers(sections[j])
    /\ \A j \in 1..Len(teachers) :
          LoadBefore(teachers[j].id) <= EffectiveMaxLoad(last.value, teachers[j])

\* C20 as claimed: whatever the schedule before and whatever solution the solver
\* answers, the variance of the loads after optimal_rebalance is at most the
\* variance before it.
C20_Original == OptimalSolved => Variance(assignments) <= Variance(before.assignments)

\* C20 amended: when the schedule before optimal_rebalance meets the constraints
\* of the integer program, the summed absolute deviation of the loads from
\* total_hours / num_teachers after a solved optimal_rebalance is at most the one
\* before it, whatever optimum the solver answers.
C20_NeverWorsensDeviation ==
    (OptimalSolved /\ FeasibleBefore) => Deviation(assignments) <= Deviation(before.assignments)

\* C20 witness: optimal_rebalance solved a schedule that met the constraints and
\* lowered its summed deviation.
C20_Witness ==
    /\ OptimalSolved /\ FeasibleBefore
    /\ Moved
    /\ Deviation(assignments) < Deviation(before.assignments)

\* C21: after an optimal_rebalance that applied a solution, every section that
\* has a qualified teacher has exactly one Assignment record, with a teacher
\* qualified for it, and every section without a qualified teacher has the
\* teacher_id it had before the call.
C21_ExactlyOne ==
    OptimalSolved =>
        \A j \in 1..Len(sections) :
            IF QualifiedTeachers(sections[j]) # {}
            THEN /\ RecordsOf(sections[j].id) = 1
                 /\ TeacherOf(assignments, sections[j].id) \in QualifiedTeachers(sections[j])
            ELSE TeacherOf(assignments, sections[j].id)
                    = TeacherOf(before.assignments, sections[j].id)

\* C21 witness: a solved optimal_rebalance gave a teacher to a section that had
\* none and left a section nobody is qualified for with the teacher who held it.
C21_Witness ==
    /\ OptimalSolved
    /\ \E j \in 1..Len(sections) :
          /\ QualifiedTeachers(sections[j]) # {}
          /\ TeacherOf(before.assignments, sections[j].id) = None
          /\ TeacherOf(assignments, sections[j].id) \in QualifiedTeachers(sections[j])
    /\ \E j \in 1..Len(sections) :
          /\ QualifiedTeachers(sections[j]) = {}
          /\ TeacherOf(before.assignments, sections[j].id) # None
          /\ TeacherOf(assignments, sections[j].id)
                = TeacherOf(before.assignments, sections[j].id)

\* An iteration of the loop of greedy_rebalance has run, and what it saw.
Visited == inflight.visit.index > 0

VisitDiff(t) == inflight.visit.loads[inflight.visit.from] - inflight.visit.loads[t]

\* The other teachers who are qualified for the visited section, have room for
\* it on the tracked loads and are more than two hours below its teacher.
VisitEligible ==
    IF inflight.visit.from = None THEN {}
    ELSE {t \in TeacherIds :
            /\ t # inflight.visit.from
            /\ SectionById(inflight.visit.section).course_code
                  \in TeacherById(t).qualified_courses
            /\ inflight.visit.loads[t] + WeeklyHours(inflight.visit.section) <= MaxLoadOf(t)
            /\ VisitDiff(t) > 2 * QuartersPerHour}

Position(t) == CHOOSE j \in 1..Len(teachers) : teachers[j].id = t

\* C22: a greedy_rebalance pass visits the assignments once, in their order; a
\* section with a teacher is moved exactly when some other teacher is qualified
\* for its course, has tracked load + section hours <= max_load_hours and has
\* current_load - target_load > 2.0; it goes to the eligible teacher with the
\* largest current_load - target_load, the first of the teachers on ties, with
\* one timeline entry; otherwise it keeps its teacher and nothing is logged.
C22_GreedyMoveRule ==
    (inflight.pc \in {"loop", "idle"} /\ Visited) =>
        /\ inflight.visit.index = inflight.i - 1
        /\ inflight.visit.section = assignments[inflight.visit.index].section_id
        /\ (inflight.visit.to # None) <=> (VisitEligible # {})
        /\ inflight.visit.to # None =>
              /\ inflight.visit.to \in VisitEligible
              /\ \A t \in VisitEligible :
                    \/ VisitDiff(t) < VisitDiff(inflight.visit.to)
                    \/ /\ VisitDiff(t) = VisitDiff(inflight.visit.to)
                       /\ Position(inflight.visit.to) <= Position(t)
        /\ assignments[inflight.visit.index].teacher_id
              = (IF inflight.visit.to # None THEN inflight.visit.to ELSE inflight.visit.from)
        /\ Len(timeline)
              = inflight.visit.entries + (IF inflight.visit.to # None THEN 1 ELSE 0)

\* C22 witness: two teachers were eligible with the same load difference and
\* the section went to the first of them.
C22_Witness ==
    /\ inflight.pc = "loop" /\ Visited
    /\ inflight.visit.to # None
    /\ \E t \in VisitEligible :
          /\ t # inflight.visit.to
          /\ VisitDiff(t) = VisitDiff(inflight.visit.to)
          /\ Position(inflight.visit.to) < Position(t)
    /\ Len(timeline) = inflight.visit.entries + 1

\* The pass taken one iteration at a time ends in the state greedy_rebalance
\* computes from the state the pass started in.
GreedyStepsAgree ==
    (inflight.pc = "loop" /\ inflight.i > Len(assignments)) =>
        LET r == greedy_rebalance(before.assignments, before.timeline,
                                  inflight.max_load_hours, inflight.now)
        IN r.assignments = assignments /\ r.timeline = timeline

\* The last iteration moved its section.
VisitMoved == Visited /\ inflight.visit.to # None

\* The loads of the source and of the target of the last move, after it.
LoadGapAfter ==
    Abs(compute_teacher_load(inflight.visit.from) - compute_teacher_load(inflight.visit.to))

\* The sum of the squared loads, on the loads a map gives.
SquaredLoads(loads) ==
    LET RECURSIVE Sum(_)
        Sum(j) == IF j > Len(teachers) THEN 0
                  ELSE loads[teachers[j].id] * loads[teachers[j].id] + Sum(j + 1)
    IN Sum(1)

\* C23 as claimed: every move of greedy_rebalance, whatever the hours of the
\* section, leaves the absolute difference between the loads of the source and
\* of the target no larger than it was, and does not raise the sum of the
\* squared loads.
C23_Original ==
    (inflight.pc = "loop" /\ VisitMoved) =>
        /\ LoadGapAfter <= VisitDiff(inflight.visit.to)
        /\ SquaredLoadFrom(assignments, 1) <= SquaredLoads(inflight.visit.loads)

\* The sections of teacher tid that asg lists before position i.
EarlierOf(asg, i, tid) == {k \in 1..(i - 1) : asg[k].teacher_id = tid}

\* Some timeslot of section sid meets some timeslot of section other.
SectionsOverlap(sid, other) ==
    \E a \in Range(SectionById(sid).timeslots), b \in Range(SectionById(other).timeslots) :
        Overlaps(a, b)

\* The teachers with two assigned sections that overlap.
DoubleBooked ==
    {tid \in TeacherIds :
        \E i \in 1..Len(assignments), k \in 1..Len(assignments) :
            /\ i # k
            /\ assignments[i].teacher_id = tid /\ assignments[k].teacher_id = tid
            /\ SectionsOverlap(assignments[i].section_id, assignments[k].section_id)}

\* C24: find_conflicting_assignments reports (teacher_id, section_id) exactly
\* when some timeslot of the section overlaps a timeslot of a section of the
\* same teacher that comes earlier in the assignments; so the first section of
\* a teacher and sections of different teachers are never reported, and a
\* teacher is in the result exactly when two of their sections overlap,
\* whatever the order of the assignments.
C24_SecondComers ==
    last.op = "find_conflicting_assignments" =>
        /\ \A i \in 1..Len(assignments) :
              (<<assignments[i].teacher_id, assignments[i].section_id>>
                    \in Range(find_conflicting_assignments))
                <=> /\ assignments[i].teacher_id # None
                    /\ \E k \in EarlierOf(assignments, i, assignments[i].teacher_id) :
                          SectionsOverlap(assignments[i].section_id,
                                          assignments[k].section_id)
        /\ \A c \in Range(find_conflicting_assignments) :
              \E i \in 1..Len(assignments) :
                  c = <<assignments[i].teacher_id, assignments[i].section_id>>
        /\ {c[1] : c \in Range(find_conflicting_assignments)} = DoubleBooked
        /\ last.value = <<Len(find_conflicting_assignments)>>

\* C24 witness: Alice holds two overlapping sections and Bob a section that
\* overlaps one of them; only the later of Alice's two is reported.
C24_Witness ==
    /\ last.op = "find_conflicting_assignments"
    /\ DoubleBooked = {"t_alice"}
    /\ \E i \in 1..Len(assignments) :
          /\ assignments[i].teacher_id = "t_bob"
          /\ \E k \in 1..Len(assignments) :
                /\ assignments[k].teacher_id = "t_alice"
                /\ SectionsOverlap(assignments[i].section_id, assignments[k].section_id)
    /\ {c[2] : c \in Range(find_conflicting_assignments)} = {assignments[Len(assignments)].section_id}

\* C28 as claimed: no (teacher_id, section_id) pair occurs twice in the list
\* find_conflicting_assignments returns, also when several timeslots of a
\* section each overlap an earlier section of the same teacher.
C28_Original ==
    last.op = "find_conflicting_assignments" =>
        \A i \in 1..Len(find_conflicting_assignments),
           k \in 1..Len(find_conflicting_assignments) :
            i # k => find_conflicting_assignments[i] # find_conflicting_assignments[k]

\* C25: at every decision point of a greedy_rebalance pass the tracked
\* teacher_loads equal the recomputed loads, teacher_loads[t] ==
\* compute_teacher_load(t) for every teacher, and no move makes the real load of
\* its target exceed max_load_hours.
C25_TrackedLoads ==
    inflight.pc = "loop" =>
        /\ \A t \in TeacherIds : inflight.teacher_loads[t] = compute_teacher_load(t)
        /\ VisitMoved => compute_teacher_load(inflight.visit.to) <= MaxLoadOf(inflight.visit.to)

\* C25 witness: after a move, at the next decision point, the tracked loads of
\* the source and of the target are the recomputed ones.
C25_Witness ==
    /\ inflight.pc = "loop" /\ inflight.i <= Len(assignments)
    /\ VisitMoved
    /\ inflight.teacher_loads[inflight.visit.to] = compute_teacher_load(inflight.visit.to)
    /\ inflight.teacher_loads[inflight.visit.from] = compute_teacher_load(inflight.visit.from)
    /\ inflight.teacher_loads[inflight.visit.to] # inflight.visit.loads[inflight.visit.to]

\* room_id set implies teacher_id set
RoomImpliesTeacher(asg) ==
    \A i \in 1..Len(asg) : asg[i].room_id # None => asg[i].teacher_id # None

\* C26: no assign_section, try_swap, greedy_rebalance or optimal_rebalance call
\* sets a teacher_id that is not None back to None or changes a room_id: every
\* record of the schedule before the call is still there with its room_id, and
\* with a teacher if it had one; and room_id set implies teacher_id set in the
\* state the call leaves.
C26_AssignmentMonotonic ==
    /\ \A i \in 1..Len(before.assignments) :
          /\ before.assignments[i].section_id \in AssignmentKeys(assignments)
          /\ AssignmentOf(assignments, before.assignments[i].section_id).room_id
                = before.assignments[i].room_id
          /\ before.assignments[i].teacher_id # None
                => TeacherOf(assignments, before.assignments[i].section_id) # None
    /\ RoomImpliesTeacher(assignments)

\* C26 witness: a call gave another teacher to a section that has a room, and
\* the section kept the room.
C26_Witness ==
    /\ last.op \in {"try_swap", "greedy_rebalance", "optimal_rebalance"}
    /\ \E i \in 1..Len(before.assignments) :
          /\ before.assignments[i].room_id # None
          /\ before.assignments[i].teacher_id # None
          /\ TeacherOf(assignments, before.assignments[i].section_id)
                \notin {None, before.assignments[i].teacher_id}
          /\ AssignmentOf(assignments, before.assignments[i].section_id).room_id
                = before.assignments[i].room_id

\* Two greedy_rebalance calls in a row have run from the first schedule.
TwoPasses ==
    /\ last.op = "greedy_rebalance" /\ before.last.op = "greedy_rebalance"
    /\ clock = MaxCalls + 1

\* C27 as claimed: greedy_rebalance called repeatedly reaches a schedule that
\* further calls leave unchanged. The result of greedy_rebalance depends on the
\* schedule only, so the claim excludes a cycle: the second pass may not bring
\* back the schedule the first pass started from and changed.
C27_Original ==
    TwoPasses =>
        ~(/\ TeachersIn(assignments) = inflight
          /\ TeachersIn(before.assignments) # inflight)

\* optimal_rebalance has replaced the state by its solved copy, and a successful
\* assign_section or try_swap wrote to the live state after the copy was taken.
WroteDuringSolve ==
    /\ last.op = "optimal_rebalance" /\ last.kind = "solved"
    /\ before.last.op \in {"assign_section", "try_swap"} /\ before.last.ok
    /\ Len(before.timeline) = Len(inflight.new_state.timeline) + 1

\* C29 as claimed: the change of a successful assign_section or try_swap that
\* takes effect between the copy of optimal_rebalance and self.state = new_state
\* is in the manager's state after optimal_rebalance returns: its timeline
\* entry is in the timeline and its section has the teacher it wrote.
C29_Original ==
    WroteDuringSolve =>
        /\ before.timeline[Len(before.timeline)] \in Range(timeline)
        /\ \A i \in 1..Len(before.assignments) :
              before.assignments[i].teacher_id
                    # TeacherOf(inflight.new_state.assignments,
                                before.assignments[i].section_id)
                => TeacherOf(assignments, before.assignments[i].section_id)
                        = before.assignments[i].teacher_id

\* find_overload() on the schedule before the last call was empty.
NoOverloadBefore == \A tid \in TeacherIds : LoadBefore(tid) <= MaxLoadOf(tid)

\* The last call was an optimal_rebalance whose override is above the
\* max_load_hours of some teacher.
OverrideAboveOwnMax ==
    /\ last.op = "optimal_rebalance"
    /\ Truthy(last.value)
    /\ \E j \in 1..Len(teachers) : last.value[1] > teachers[j].max_load_hours

\* C30 as claimed: from a schedule where find_overload() is empty, an
\* assign_section, try_swap, greedy_rebalance or optimal_rebalance call, with or
\* without an override and also with an override above a teacher's own
\* max_load_hours, leaves find_overload() empty.
C30_Original == NoOverloadBefore => find_overload = {}

\* C30 amended: from a schedule where find_overload() is empty and every
\* assigned teacher is qualified, every call leaves find_overload() empty,
\* except an optimal_rebalance with an override above some teacher's own
\* max_load_hours.
C30_NoNewOverload ==
    (NoOverloadBefore /\ Qualified(before.assignments) /\ ~OverrideAboveOwnMax)
        => find_overload = {}

\* C30 witness: a solved optimal_rebalance with no override gave sections to
\* teachers of a qualified schedule without overload, and nobody is overloaded.
C30_Witness ==
    /\ OptimalSolved /\ NoOverride
    /\ NoOverloadBefore /\ Qualified(before.assignments)
    /\ \E tid \in TeacherIds : compute_teacher_load(tid) > LoadBefore(tid)
    /\ find_overload = {}

====
